---- MODULE Spec2Model ----
(***************************************************************************)
(* PythonConsoleWidget (src/pyconsole.py): a QTextEdit turned into a       *)
(* line-oriented Python console.  The text surface is a flat sequence of   *)
(* one-character strings with "\n" between Qt blocks, the caret is the     *)
(* number of characters before it.  Word wrap is not modelled: a visual    *)
(* line is a block.  The Python interpreter behind compile/eval/exec is    *)
(* an oracle: every dispatch draws one of the Outcomes.  Mappings (dict    *)
(* objects) live in a heap, so that sharing by reference is told from     *)
(* copying.                                                                *)
(***************************************************************************)
EXTENDS Integers, Sequences, FiniteSets, TLC

\* ---------------------------------------------------------------- bounds
\* Key events per session.
MaxKeys == 6
\* Length of the lines should_continue is scanned on in SpecScan.
MaxScanLen == 3
\* Calls and assignments the host makes around the console in SpecEngine,
\* and key events of a session there.
MaxHostCalls == 2
MaxEngineKeys == 4

\* ------------------------------------------------------------- constants
prompt == << ">", ">", ">", " " >>
continuation_prompt == << ".", ".", ".", " " >>
welcome_msg == <<
    "P", "y", "t", "h", "o", "n", " ", "C", "o", "n", "s", "o", "l", "e",
    " ", "(", "P", "y", "t", "h", "o", "n", " ", "3", ".", "8", ")", "\n",
    "T", "y", "p", "e", " ", "'", "h", "e", "l", "p", "(", ")", "'", " ",
    "f", "o", "r", " ", "h", "e", "l", "p", "\n", "\n" >>
tab_text == << " ", " ", " ", " " >>
\* repr(result) of a value, and the body of traceback.format_exc(), which
\* ends in a line break; their contents are opaque to the console.
repr_result == << "4" >>
format_exc == << "E", "\n" >>

\* Ordinary characters the user types in Spec (whitespace comes from Tab).
Alphabet == { "a", "(", ")" }
\* Ordinary characters the user types in SpecEngine.
EngineAlphabet == { "a", "(" }
\* Characters of the lines should_continue is scanned on in SpecScan.
ScanAlphabet == { "(", ")", "[", "]", "{", "}", "\"", "'", ":", " ", "a" }

VARIABLES
    text,               \* toPlainText()
    pos,                \* textCursor().position()
    command_history,
    history_index,
    current_command,
    in_continuation,
    multiline_command,
    dispatched,         \* arguments of the execute_command calls of the last event
    escaped,            \* the last event was a key event left by an uncaught exception
    keys,               \* key events so far
    heap,               \* the dict objects: identity |-> mapping from names to values
    namespace,          \* self.namespace: the identity of a dict object
    namespace_arg,      \* the namespace argument of __init__: an identity or "None"
    initial_namespace,  \* the mapping the caller's dict held when it was passed
    sys_stdout,         \* sys.stdout: the identity of a stream object
    sys_stderr,         \* sys.stderr
    allocated,          \* io.StringIO objects created so far
    ran,                \* what the execute_command call of the last event ran
    host_calls,         \* SpecEngine: calls and assignments the host made so far
    scan_line,          \* SpecScan: the line under test
    scan_result         \* SpecScan: should_continue(scan_line)

vars == << text, pos, command_history, history_index, current_command,
           in_continuation, multiline_command, dispatched, escaped,
           keys, heap, namespace, namespace_arg, initial_namespace,
           sys_stdout, sys_stderr, allocated, ran, host_calls,
           scan_line, scan_result >>

\* The interpreter's side: the shared namespace and the output streams.
engine_vars == << heap, namespace, namespace_arg, initial_namespace,
                  sys_stdout, sys_stderr, allocated, ran, host_calls >>

console_vars == << text, pos, command_history, history_index, current_command,
                   in_continuation, multiline_command, dispatched, escaped,
                   keys, engine_vars >>

\* The widget's own fields and the text surface.
widget_vars == << text, pos, command_history, history_index, current_command,
                  in_continuation, multiline_command >>

\* ------------------------------------------------------- string helpers
Min(a, b) == IF a < b THEN a ELSE b
Max(a, b) == IF a > b THEN a ELSE b

IsSpace(c) == c \in { " ", "\n" }

RECURSIVE lstrip(_)
lstrip(s) == IF s # << >> /\ IsSpace(Head(s)) THEN lstrip(Tail(s)) ELSE s

RECURSIVE rstrip(_)
rstrip(s) ==
    IF s # << >> /\ IsSpace(s[Len(s)]) THEN rstrip(SubSeq(s, 1, Len(s) - 1)) ELSE s

\* str.strip()
strip(s) == lstrip(rstrip(s))

\* str.rstrip('\n\r')
RECURSIVE rstrip_newlines(_)
rstrip_newlines(s) ==
    IF s # << >> /\ s[Len(s)] = "\n"
    THEN rstrip_newlines(SubSeq(s, 1, Len(s) - 1)) ELSE s

startswith(s, p) == Len(s) >= Len(p) /\ SubSeq(s, 1, Len(p)) = p

endswith(s, c) == s # << >> /\ s[Len(s)] = c

\* x in lst
InSeq(x, lst) == \E i \in 1..Len(lst) : lst[i] = x

\* ---------------------------------------------------------- text surface
\* Offset of the start of the line holding caret p: just after the last
\* line break before the caret.
RECURSIVE LineStart(_, _)
LineStart(t, p) ==
    IF p = 0 \/ t[p] = "\n" THEN p ELSE LineStart(t, p - 1)

\* Offset of the end of the line holding caret p: just before the first
\* line break after the caret.
RECURSIVE LineEnd(_, _)
LineEnd(t, p) ==
    IF p = Len(t) \/ t[p + 1] = "\n" THEN p ELSE LineEnd(t, p + 1)

\* insertPlainText(s) with the caret at p and nothing selected.
insertPlainText(t, p, s) ==
    [ text |-> SubSeq(t, 1, p) \o s \o SubSeq(t, p + 1, Len(t)),
      pos  |-> p + Len(s) ]

current_prompt(ic) == IF ic THEN continuation_prompt ELSE prompt

append_prompt(t, p, ic) ==
    LET r == insertPlainText(t, p, current_prompt(ic))
    IN [ text |-> r.text, pos |-> Len(r.text) ]

get_current_line_text(t, p) == SubSeq(t, LineStart(t, p) + 1, LineEnd(t, p))

get_prompt_position(t, ic) ==
    LET last_line == SubSeq(t, LineStart(t, Len(t)) + 1, Len(t))
    IN IF startswith(last_line, prompt) \/ startswith(last_line, continuation_prompt)
       THEN Len(t) - Len(last_line) + Len(current_prompt(ic))
       ELSE Len(t)

get_current_command(t, p) ==
    LET line_text == get_current_line_text(t, p)
    IN IF startswith(line_text, prompt)
       THEN SubSeq(line_text, Len(prompt) + 1, Len(line_text))
       ELSE IF startswith(line_text, continuation_prompt)
       THEN SubSeq(line_text, Len(continuation_prompt) + 1, Len(line_text))
       ELSE line_text

\* The copy of the cursor goes to End, StartOfLine, Right len(prompt) times
\* (each Right fails at the end of the document), selects to EndOfLine,
\* removes the selection and inserts new_command.
replace_current_command(t, ic, new_command) ==
    LET start == LineStart(t, Len(t))
        from  == Min(start + Len(current_prompt(ic)), Len(t))
        t2    == SubSeq(t, 1, from) \o new_command
    IN [ text |-> t2, pos |-> Len(t2) ]

\* -------------------------------------------------- continuation detector
OpenBrackets == { "(", "[", "{" }
CloseBrackets == { ")", "]", "}" }
Quotes == { "\"", "'" }
brackets(c) == CASE c = "(" -> ")" [] c = "[" -> "]" [] c = "{" -> "}"

\* Mutant of scan_chars: a closing bracket pops the stack whatever is on top.
RECURSIVE scan_chars_pops_any(_, _, _, _, _)
scan_chars_pops_any(command, i, stack, in_string, string_char) ==
    IF i > Len(command) THEN Len(stack) > 0 \/ in_string
    ELSE LET char == command[i] IN
         IF char \in Quotes /\ ~in_string
         THEN scan_chars_pops_any(command, i + 1, stack, TRUE, char)
         ELSE IF char = string_char /\ in_string
         THEN scan_chars_pops_any(command, i + 1, stack, FALSE, "None")
         ELSE IF ~in_string /\ char \in OpenBrackets
         THEN scan_chars_pops_any(command, i + 1, Append(stack, char),
                                  in_string, string_char)
         ELSE IF ~in_string /\ char \in CloseBrackets /\ stack # << >>
         THEN scan_chars_pops_any(command, i + 1, SubSeq(stack, 1, Len(stack) - 1),
                                  in_string, string_char)
         ELSE scan_chars_pops_any(command, i + 1, stack, in_string, string_char)

\* The for loop of should_continue from character i on, and its return.
RECURSIVE scan_chars(_, _, _, _, _)
scan_chars(command, i, stack, in_string, string_char) ==
    IF i > Len(command) THEN Len(stack) > 0 \/ in_string
    ELSE LET char == command[i] IN
         IF char \in Quotes /\ ~in_string
         THEN scan_chars(command, i + 1, stack, TRUE, char)
         ELSE IF char = string_char /\ in_string
         THEN scan_chars(command, i + 1, stack, FALSE, "None")
         ELSE IF ~in_string /\ char \in OpenBrackets
         THEN scan_chars(command, i + 1, Append(stack, char), in_string, string_char)
         ELSE IF ~in_string /\ char \in CloseBrackets
                 /\ stack # << >> /\ brackets(stack[Len(stack)]) = char
         THEN scan_chars(command, i + 1, SubSeq(stack, 1, Len(stack) - 1),
                         in_string, string_char)
         ELSE scan_chars(command, i + 1, stack, in_string, string_char)

should_continue(command) ==
    IF endswith(strip(command), ":") THEN TRUE
    ELSE scan_chars(command, 1, << >>, FALSE, "None")

\* ------------------------------------------------------------ namespace
\* The defaults dict of _setup_default_namespace; a built-in is written as
\* its name.
defaults ==
    ( "__name__" :> "__console__" ) @@ ( "__doc__" :> "None" ) @@
    [ k \in { "help", "dir", "len", "print", "range", "list", "dict",
              "str", "int", "float" } |-> k ]

\* m[key] = value on a dict.
setitem(m, key, value) ==
    [ k \in DOMAIN m \cup { key } |-> IF k = key THEN value ELSE m[k] ]

\* Mutant of setup_default_namespace: the defaults are written over the
\* bindings that are there.
setup_default_namespace_overwrites(m) ==
    [ k \in DOMAIN m \cup DOMAIN defaults |->
        IF k \in DOMAIN defaults THEN defaults[k] ELSE m[k] ]

\* _setup_default_namespace on the dict m: "Add defaults, but don't
\* overwrite existing items".
setup_default_namespace(m) ==
    [ k \in DOMAIN m \cup DOMAIN defaults |->
        IF k \in DOMAIN m THEN m[k] ELSE defaults[k] ]

\* The dict objects: the one the caller may hand to __init__ and the one
\* the "{}" of __init__ creates.
DictIds == { "caller_dict", "new_dict" }

\* "namespace or {}": None is falsy and so is an empty dict.
namespace_or_new(arg, h) ==
    IF arg = "None" \/ DOMAIN h[arg] = {} THEN "new_dict" ELSE arg

\* __init__, "Set up the namespace for code execution", with the caller's
\* dict holding caller_mapping when one is passed.
init_namespace(arg, caller_mapping) ==
    LET h0 == [ d \in DictIds |-> IF d = arg THEN caller_mapping ELSE << >> ]
        ns == namespace_or_new(arg, h0)
    IN [ namespace |-> ns,
         heap |-> [ h0 EXCEPT ![ns] = setup_default_namespace(h0[ns]) ] ]

\* Names and values the caller and the user bind.
CallerNames == { "app_state", "print" }
CallerMappings == UNION { [ S -> { "caller" } ] : S \in SUBSET CallerNames }

\* ---------------------------------------------------------------- streams
\* Stream objects by identity: the n-th file object of the process and the
\* n-th io.StringIO created.
file(n) == << "file", n >>
StringIO(n) == << "StringIO", n >>
\* The files the host puts on sys.stdout.
HostStreams == { file(1), file(3) }

\* ------------------------------------------------------ execution engine
\* What compile/eval/exec do with one dispatched command.  An expression
\* that compiles under 'eval' compiles under 'exec' too.
CompileRun ==
    { [ compile_eval |-> "ok", eval |-> e, compile_exec |-> "n/a", exec |-> "n/a" ] :
        e \in { "None", "Value", "Exception", "BaseException" } }
    \cup
    { [ compile_eval |-> "ok", eval |-> "SyntaxError", compile_exec |-> "ok", exec |-> x ] :
        x \in { "ok", "Exception", "BaseException" } }
    \cup
    { [ compile_eval |-> "SyntaxError", eval |-> "n/a", compile_exec |-> "ok", exec |-> x ] :
        x \in { "ok", "Exception", "BaseException" } }
    \cup
    { [ compile_eval |-> "SyntaxError", eval |-> "n/a",
        compile_exec |-> "SyntaxError", exec |-> "n/a" ] }

\* What the code of the command does each time it is run, before it
\* returns or raises: the texts it writes to sys.stdout and sys.stderr, in
\* order, the name it binds in its globals, and whether it assigns
\* sys.stdout.
quiet == [ emits |-> << >>, binds |-> "None", redirects |-> FALSE ]

Effects ==
    { quiet,
      [ emits |-> << << "stderr", << "w", "\n" >> >>, << "stdout", << "p", "\n" >> >> >>,
        binds |-> "x", redirects |-> FALSE ],
      [ emits |-> << << "stdout", << "\n" >> >> >>, binds |-> "None", redirects |-> TRUE ] }

with_effects(c, e) ==
    [ compile_eval |-> c.compile_eval, eval |-> c.eval,
      compile_exec |-> c.compile_exec, exec |-> c.exec,
      emits |-> e.emits, binds |-> e.binds, redirects |-> e.redirects ]

\* The commands of a key session over Alphabet: they write nothing and bind
\* nothing.
Outcomes == { with_effects(c, quiet) : c \in CompileRun }

\* The commands of SpecEngine.  An assignment to sys.stdout is a statement:
\* it does not compile as an expression.
EngineOutcomes ==
    { o \in { with_effects(c, e) : c \in CompileRun, e \in Effects } :
        o.redirects => o.compile_eval = "SyntaxError" }

\* The text one run of the command writes to a stream.
RECURSIVE written(_, _)
written(emits, stream) ==
    IF emits = << >> THEN << >>
    ELSE (IF Head(emits)[1] = stream THEN Head(emits)[2] ELSE << >>)
         \o written(Tail(emits), stream)

\* handle_exception: print(traceback.format_exc(), file=sys.stderr)
handle_exception == format_exc \o << "\n" >>

\* The inner try statement (compile and exec under 'exec'): the captured
\* streams, whether an exception leaves it and how often the code ran.
exec_branch(o) ==
    IF o.compile_exec = "SyntaxError"
    THEN [ stdout_text |-> << >>, stderr_text |-> handle_exception,
           escaped |-> FALSE, evals |-> 0, execs |-> 0 ]
    ELSE [ stdout_text |-> written(o.emits, "stdout"),
           stderr_text |-> written(o.emits, "stderr")
                           \o (IF o.exec = "Exception" THEN handle_exception ELSE << >>),
           escaped |-> o.exec = "BaseException", evals |-> 0, execs |-> 1 ]

\* Mutant of try_command: the repr of the result is printed without the
\* "is not None" test.
try_command_echoes_none(o) ==
    IF o.compile_eval = "SyntaxError" THEN exec_branch(o)
    ELSE IF o.eval = "SyntaxError"
    THEN [ stdout_text |-> written(o.emits, "stdout") \o exec_branch(o).stdout_text,
           stderr_text |-> written(o.emits, "stderr") \o exec_branch(o).stderr_text,
           escaped |-> exec_branch(o).escaped, evals |-> 1,
           execs |-> exec_branch(o).execs ]
    ELSE [ stdout_text |-> written(o.emits, "stdout")
                           \o (IF o.eval \in { "Value", "None" }
                               THEN repr_result \o << "\n" >> ELSE << >>),
           stderr_text |-> written(o.emits, "stderr")
                           \o (IF o.eval = "Exception" THEN handle_exception ELSE << >>),
           escaped |-> o.eval = "BaseException", evals |-> 1, execs |-> 0 ]

\* The outer try statement: compile and eval under 'eval', "except
\* SyntaxError" around both, "except Exception".
try_command(o) ==
    IF o.compile_eval = "SyntaxError" THEN exec_branch(o)
    ELSE IF o.eval = "SyntaxError"
    THEN LET e == exec_branch(o)
         IN [ stdout_text |-> written(o.emits, "stdout") \o e.stdout_text,
              stderr_text |-> written(o.emits, "stderr") \o e.stderr_text,
              escaped |-> e.escaped, evals |-> 1, execs |-> e.execs ]
    ELSE [ stdout_text |-> written(o.emits, "stdout")
                           \o (IF o.eval = "Value"
                               THEN repr_result \o << "\n" >> ELSE << >>),
           stderr_text |-> written(o.emits, "stderr")
                           \o (IF o.eval = "Exception" THEN handle_exception ELSE << >>),
           escaped |-> o.eval = "BaseException", evals |-> 1, execs |-> 0 ]

\* The globals of the command after its runs: exec and eval are handed
\* self.namespace itself.
run_in_namespace(h, ns, o, times) ==
    IF times > 0 /\ o.binds # "None"
    THEN [ h EXCEPT ![ns] = setitem(@, o.binds, "user") ]
    ELSE h

\* Mutant of finally_restore: the stream is put back only when the try
\* block is left without an exception.
restore_on_return(old, current, left_by_exception) ==
    IF left_by_exception THEN current ELSE old

\* "finally: sys.stdout = old_stdout": whatever sys.stdout is by then.
finally_restore(old, current, left_by_exception) == old

\* "Display any output": one captured stream.
display(s, captured) ==
    IF captured # << >> /\ rstrip_newlines(captured) # << >>
    THEN insertPlainText(s.text, s.pos, rstrip_newlines(captured) \o << "\n" >>)
    ELSE s

\* Mutant of add_to_history: the command is appended without looking for it.
add_to_history_always(hist, hidx, command) ==
    [ command_history |-> Append(hist, strip(command)), history_index |-> -1 ]

\* Mutant of add_to_history: the history cursor is not reset.
add_to_history_keeps_index(hist, hidx, command) ==
    [ command_history |-> IF InSeq(strip(command), hist)
                          THEN hist ELSE Append(hist, strip(command)),
      history_index   |-> hidx ]

\* Mutant of add_to_history: nothing is appended.
add_to_history_never(hist, hidx, command) ==
    [ command_history |-> hist, history_index |-> -1 ]

\* "Add to command history" and the reset of the history cursor.
add_to_history(hist, hidx, command) ==
    [ command_history |-> IF InSeq(strip(command), hist)
                          THEN hist ELSE Append(hist, strip(command)),
      history_index   |-> -1 ]

\* The interpreter's side as a key event that runs no command leaves it.
engine_idle ==
    [ heap |-> heap, sys_stdout |-> sys_stdout, sys_stderr |-> sys_stderr,
      allocated |-> allocated, ran |-> << >> ]

\* execute_command from "Capture stdout and stderr" to the end of the
\* finally clause, on the interpreter's side.
engine_run(o) ==
    LET old_stdout == sys_stdout
        old_stderr == sys_stderr
        stdout_capture == StringIO(allocated + 1)
        stderr_capture == StringIO(allocated + 2)
        r == try_command(o)
    IN [ heap |-> run_in_namespace(heap, namespace, o, r.evals + r.execs),
         sys_stdout |-> finally_restore(old_stdout,
                            IF o.redirects /\ r.execs > 0 THEN file(4) ELSE stdout_capture,
                            r.escaped),
         sys_stderr |-> finally_restore(old_stderr, stderr_capture, r.escaped),
         allocated |-> allocated + 2,
         ran |-> << [ outcome |-> o, evals |-> r.evals, execs |-> r.execs,
                      stdout_capture |-> stdout_capture,
                      stderr_capture |-> stderr_capture,
                      stdout_text |-> r.stdout_text,
                      stderr_text |-> r.stderr_text ] >> ]

execute_command(t, p, ic, hist, hidx, command, o) ==
    IF strip(command) = << >>
    THEN LET s == append_prompt(t, p, ic)
         IN [ text |-> s.text, pos |-> s.pos, command_history |-> hist,
              history_index |-> hidx, escaped |-> FALSE, engine |-> engine_idle ]
    ELSE LET h  == add_to_history(hist, hidx, command)
             r  == try_command(o)
             s1 == display([ text |-> t, pos |-> p ], r.stdout_text)
             s2 == display(s1, r.stderr_text)
             s3 == append_prompt(s2.text, s2.pos, ic)
         IN IF r.escaped
            THEN [ text |-> t, pos |-> p,
                   command_history |-> h.command_history,
                   history_index |-> h.history_index, escaped |-> TRUE,
                   engine |-> engine_run(o) ]
            ELSE [ text |-> s3.text, pos |-> s3.pos,
                   command_history |-> h.command_history,
                   history_index |-> h.history_index, escaped |-> FALSE,
                   engine |-> engine_run(o) ]

\* ------------------------------------------------------------------ Init
Init ==
    /\ text = welcome_msg \o prompt
    /\ pos = Len(welcome_msg \o prompt)
    /\ command_history = << >>
    /\ history_index = -1
    /\ current_command = << >>
    /\ in_continuation = FALSE
    /\ multiline_command = << >>
    /\ dispatched = << >>
    /\ escaped = FALSE
    /\ keys = 0
    /\ namespace_arg = "None"
    /\ initial_namespace = << >>
    /\ namespace = init_namespace("None", << >>).namespace
    /\ heap = init_namespace("None", << >>).heap
    /\ sys_stdout = file(1)
    /\ sys_stderr = file(2)
    /\ allocated = 0
    /\ ran = << >>
    /\ host_calls = 0
    /\ scan_line = << >>
    /\ scan_result = FALSE

\* ---------------------------------------------------------- key events
\* One more key event is delivered to keyPressEvent.
KeyEvent == keys < MaxKeys /\ keys' = keys + 1

\* A key event that calls execute_command leaves a record of the call.
NoDispatch ==
    /\ dispatched' = << >>
    /\ escaped' = FALSE
    /\ ran' = << >>
    /\ UNCHANGED << heap, namespace, namespace_arg, initial_namespace,
                    sys_stdout, sys_stderr, allocated, host_calls >>

\* keyPressEvent, last statement: the guard in front of super().keyPressEvent
PassThrough == pos >= get_prompt_position(text, in_continuation)

\* An ordinary character: QTextEdit inserts it at the caret.
KeyChar(c) ==
    /\ KeyEvent
    /\ IF PassThrough
       THEN LET s == insertPlainText(text, pos, << c >>)
            IN text' = s.text /\ pos' = s.pos
       ELSE UNCHANGED << text, pos >>
    /\ NoDispatch
    /\ UNCHANGED << command_history, history_index, current_command,
                    in_continuation, multiline_command, scan_line,
                    scan_result >>

KeyTab ==
    /\ KeyEvent
    /\ LET s == insertPlainText(text, pos, tab_text)
       IN text' = s.text /\ pos' = s.pos
    /\ NoDispatch
    /\ UNCHANGED << command_history, history_index, current_command,
                    in_continuation, multiline_command, scan_line,
                    scan_result >>

\* The early return of the Backspace branch.
backspace_suppressed(t, p, ic) ==
    LET line_text == get_current_line_text(t, p)
    IN /\ startswith(line_text, prompt) \/ startswith(line_text, continuation_prompt)
       /\ Len(line_text) <= Len(current_prompt(ic))

\* Backspace: QTextEdit deletes the character before the caret.
KeyBackspace ==
    /\ KeyEvent
    /\ IF /\ ~backspace_suppressed(text, pos, in_continuation)
          /\ PassThrough
          /\ pos > 0
       THEN /\ text' = SubSeq(text, 1, pos - 1) \o SubSeq(text, pos + 1, Len(text))
            /\ pos' = pos - 1
       ELSE UNCHANGED << text, pos >>
    /\ NoDispatch
    /\ UNCHANGED << command_history, history_index, current_command,
                    in_continuation, multiline_command, scan_line,
                    scan_result >>

\* A movement key handled by QTextEdit: the caret goes to target.
Move(target) ==
    /\ KeyEvent
    /\ pos' = IF PassThrough THEN target ELSE pos
    /\ NoDispatch
    /\ UNCHANGED << text, command_history, history_index, current_command,
                    in_continuation, multiline_command, scan_line,
                    scan_result >>

KeyLeft == Move(Max(pos - 1, 0))

KeyRight == Move(Min(pos + 1, Len(text)))

KeyHome == Move(LineStart(text, pos))

KeyEnd == Move(LineEnd(text, pos))

\* handle_enter, "if self.in_continuation:" branch.  s0 is the text surface
\* after the line break has been inserted at the end, o what the
\* interpreter does with a dispatched command.  An exception that leaves
\* execute_command skips the two assignments after the call.
enter_continuing(command, s0, o) ==
    LET joined == multiline_command \o << "\n" >> \o command
    IN IF strip(command) = << >>
       THEN LET r == execute_command(s0.text, s0.pos, in_continuation,
                                     command_history, history_index, joined, o)
            IN [ text |-> r.text, pos |-> r.pos,
                 command_history |-> r.command_history,
                 history_index |-> r.history_index,
                 multiline_command |-> IF r.escaped THEN joined ELSE << >>,
                 in_continuation |-> r.escaped,
                 dispatched |-> << joined >>, escaped |-> r.escaped,
                 engine |-> r.engine ]
       ELSE LET s == append_prompt(s0.text, s0.pos, in_continuation)
            IN [ text |-> s.text, pos |-> s.pos,
                 command_history |-> command_history,
                 history_index |-> history_index,
                 multiline_command |-> joined,
                 in_continuation |-> in_continuation,
                 dispatched |-> << >>, escaped |-> FALSE,
                 engine |-> engine_idle ]

\* Mutant of enter_ready: a blank line is handed to execute_command too.
enter_ready_dispatches_blank(command, s0, o) ==
    IF should_continue(command)
    THEN LET s == append_prompt(s0.text, s0.pos, TRUE)
         IN [ text |-> s.text, pos |-> s.pos,
              command_history |-> command_history,
              history_index |-> history_index,
              multiline_command |-> command,
              in_continuation |-> TRUE,
              dispatched |-> << >>, escaped |-> FALSE,
                 engine |-> engine_idle ]
    ELSE LET r == execute_command(s0.text, s0.pos, in_continuation,
                                  command_history, history_index, command, o)
         IN [ text |-> r.text, pos |-> r.pos,
              command_history |-> r.command_history,
              history_index |-> r.history_index,
              multiline_command |-> multiline_command,
              in_continuation |-> in_continuation,
              dispatched |-> << command >>, escaped |-> r.escaped,
              engine |-> r.engine ]

\* handle_enter, "else:" branch (single line command).
enter_ready(command, s0, o) ==
    IF should_continue(command)
    THEN LET s == append_prompt(s0.text, s0.pos, TRUE)
         IN [ text |-> s.text, pos |-> s.pos,
              command_history |-> command_history,
              history_index |-> history_index,
              multiline_command |-> command,
              in_continuation |-> TRUE,
              dispatched |-> << >>, escaped |-> FALSE,
                 engine |-> engine_idle ]
    ELSE IF strip(command) # << >>
    THEN LET r == execute_command(s0.text, s0.pos, in_continuation,
                                  command_history, history_index, command, o)
         IN [ text |-> r.text, pos |-> r.pos,
              command_history |-> r.command_history,
              history_index |-> r.history_index,
              multiline_command |-> multiline_command,
              in_continuation |-> in_continuation,
              dispatched |-> << command >>, escaped |-> r.escaped,
              engine |-> r.engine ]
    ELSE LET s == append_prompt(s0.text, s0.pos, in_continuation)
         IN [ text |-> s.text, pos |-> s.pos,
              command_history |-> command_history,
              history_index |-> history_index,
              multiline_command |-> multiline_command,
              in_continuation |-> in_continuation,
              dispatched |-> << >>, escaped |-> FALSE,
                 engine |-> engine_idle ]

\* The state handle_enter leaves, r being what its branch computed.
after_enter(r) ==
    /\ text' = r.text
    /\ pos' = r.pos
    /\ command_history' = r.command_history
    /\ history_index' = r.history_index
    /\ multiline_command' = r.multiline_command
    /\ in_continuation' = r.in_continuation
    /\ dispatched' = r.dispatched
    /\ escaped' = r.escaped
    /\ heap' = r.engine.heap
    /\ sys_stdout' = r.engine.sys_stdout
    /\ sys_stderr' = r.engine.sys_stderr
    /\ allocated' = r.engine.allocated
    /\ ran' = r.engine.ran
    /\ UNCHANGED << current_command, namespace, namespace_arg,
                    initial_namespace, host_calls, scan_line, scan_result >>

\* handle_enter when the interpreter does o with a dispatched command.
handle_enter(o) ==
    after_enter(IF in_continuation
                THEN enter_continuing(get_current_command(text, pos),
                                      insertPlainText(text, Len(text), << "\n" >>), o)
                ELSE enter_ready(get_current_command(text, pos),
                                 insertPlainText(text, Len(text), << "\n" >>), o))

\* Return/Enter: handle_enter
KeyEnter ==
    /\ KeyEvent
    /\ \E o \in Outcomes : handle_enter(o)

\* handle_history_up
KeyUp ==
    /\ KeyEvent
    /\ IF command_history = << >>
       THEN UNCHANGED << text, pos, history_index, current_command >>
       ELSE LET idx == IF history_index = -1
                       THEN Len(command_history) - 1
                       ELSE Max(0, history_index - 1)
                s == replace_current_command(text, in_continuation,
                                             command_history[idx + 1])
            IN /\ current_command' = IF history_index = -1
                                     THEN get_current_command(text, pos)
                                     ELSE current_command
               /\ history_index' = idx
               /\ text' = s.text
               /\ pos' = s.pos
    /\ NoDispatch
    /\ UNCHANGED << command_history, in_continuation, multiline_command,
                    scan_line, scan_result >>

\* handle_history_down
KeyDown ==
    /\ KeyEvent
    /\ IF command_history = << >> \/ history_index = -1
       THEN UNCHANGED << text, pos, history_index >>
       ELSE LET idx == history_index + 1
                new_command == IF idx >= Len(command_history)
                               THEN current_command
                               ELSE command_history[idx + 1]
                s == replace_current_command(text, in_continuation, new_command)
            IN /\ history_index' = IF idx >= Len(command_history) THEN -1 ELSE idx
               /\ text' = s.text
               /\ pos' = s.pos
    /\ NoDispatch
    /\ UNCHANGED << command_history, current_command, in_continuation,
                    multiline_command, scan_line, scan_result >>

Next ==
    \/ \E c \in Alphabet : KeyChar(c)
    \/ KeyTab
    \/ KeyBackspace
    \/ KeyLeft
    \/ KeyRight
    \/ KeyHome
    \/ KeyEnd
    \/ KeyEnter
    \/ KeyUp
    \/ KeyDown

Spec == Init /\ [][Next]_vars

\* ------------------------------------- the detector on bounded lines
\* One more character on the line under test, and the detector's answer.
ScanLine ==
    /\ Len(scan_line) < MaxScanLen
    /\ \E c \in ScanAlphabet :
         /\ scan_line' = Append(scan_line, c)
         /\ scan_result' = should_continue(Append(scan_line, c))
    /\ UNCHANGED console_vars

NextScan == ScanLine

SpecScan == Init /\ [][NextScan]_vars

\* ------------------------------------- the console inside its host
\* The state after PythonConsoleWidget(namespace=...): the caller passes
\* no dict, or a dict holding one of the CallerMappings, and has one of its
\* files on sys.stdout.
InitEngine ==
    /\ text = welcome_msg \o prompt
    /\ pos = Len(welcome_msg \o prompt)
    /\ command_history = << >>
    /\ history_index = -1
    /\ current_command = << >>
    /\ in_continuation = FALSE
    /\ multiline_command = << >>
    /\ dispatched = << >>
    /\ escaped = FALSE
    /\ keys = 0
    /\ \E arg \in { "None", "caller_dict" } :
       \E m \in (IF arg = "None" THEN { << >> } ELSE CallerMappings) :
         /\ namespace_arg = arg
         /\ initial_namespace = m
         /\ namespace = init_namespace(arg, m).namespace
         /\ heap = init_namespace(arg, m).heap
    /\ sys_stdout \in HostStreams
    /\ sys_stderr = file(2)
    /\ allocated = 0
    /\ ran = << >>
    /\ host_calls = 0
    /\ scan_line = << >>
    /\ scan_result = FALSE

\* One more call or assignment by the host, between two key events.
HostCall ==
    /\ host_calls < MaxHostCalls
    /\ host_calls' = host_calls + 1
    /\ dispatched' = << >>
    /\ escaped' = FALSE
    /\ ran' = << >>
    /\ UNCHANGED << widget_vars, keys, namespace, namespace_arg,
                    initial_namespace, allocated, scan_line, scan_result >>

\* console.add_to_namespace(name, obj)
add_to_namespace(name, obj) ==
    /\ HostCall
    /\ heap' = [ heap EXCEPT ![namespace] = setitem(@, name, obj) ]
    /\ UNCHANGED << sys_stdout, sys_stderr >>

\* The host binds a name in the dict it passed to __init__.
HostBinds(name, value) ==
    /\ namespace_arg # "None"
    /\ HostCall
    /\ heap' = [ heap EXCEPT ![namespace_arg] = setitem(@, name, value) ]
    /\ UNCHANGED << sys_stdout, sys_stderr >>

\* The host puts another of its files on sys.stdout.
HostRedirects(stream) ==
    /\ stream # sys_stdout
    /\ HostCall
    /\ sys_stdout' = stream
    /\ UNCHANGED << heap, sys_stderr >>

\* An ordinary character typed in a session of SpecEngine.
TypeChar(c) == keys < MaxEngineKeys /\ KeyChar(c)

\* Return/Enter in a session of SpecEngine.
Submit ==
    /\ keys < MaxEngineKeys
    /\ KeyEvent
    /\ \E o \in EngineOutcomes : handle_enter(o)

NextEngine ==
    \/ \E c \in EngineAlphabet : TypeChar(c)
    \/ Submit
    \/ \E name \in CallerNames : add_to_namespace(name, "added")
    \/ \E name \in CallerNames : HostBinds(name, "bound")
    \/ \E stream \in HostStreams : HostRedirects(stream)

SpecEngine == InitEngine /\ [][NextEngine]_vars

\* ------------------------------ sessions around a multi-line block
\* The state a fresh console is in after the keys '(' , Enter, c, Enter:
\* Continuing, with a two-line block pending.  The key events that led
\* here are not counted.
InitRecall ==
    /\ \E c \in { "a", ")" } :
         /\ text = welcome_msg \o prompt \o << "(", "\n" >>
                      \o continuation_prompt \o << c, "\n" >> \o continuation_prompt
         /\ multiline_command = << "(", "\n", c >>
    /\ pos = Len(text)
    /\ command_history = << >>
    /\ history_index = -1
    /\ current_command = << >>
    /\ in_continuation = TRUE
    /\ dispatched = << >>
    /\ escaped = FALSE
    /\ keys = 0
    /\ namespace_arg = "None"
    /\ initial_namespace = << >>
    /\ namespace = init_namespace("None", << >>).namespace
    /\ heap = init_namespace("None", << >>).heap
    /\ sys_stdout = file(1)
    /\ sys_stderr = file(2)
    /\ allocated = 0
    /\ ran = << >>
    /\ host_calls = 0
    /\ scan_line = << >>
    /\ scan_result = FALSE

NextRecall ==
    \/ \E c \in Alphabet : KeyChar(c)
    \/ KeyEnter
    \/ KeyUp
    \/ KeyDown

SpecRecall == InitRecall /\ [][NextRecall]_vars

\* ------------------------------------- sessions with the caret moved away
\* Ctrl+Home, handled by QTextEdit: the caret goes to the start of the
\* document.
KeyCtrlHome == Move(0)

NextNav ==
    \/ \E c \in Alphabet : KeyChar(c)
    \/ KeyEnter
    \/ KeyLeft
    \/ KeyHome
    \/ KeyCtrlHome

SpecNav == Init /\ [][NextNav]_vars

\* ================================================================ claims
\* The last line of the transcript, and the command text on it.
last_line(t) == SubSeq(t, LineStart(t, Len(t)) + 1, Len(t))
shown_command(t) == get_current_command(t, Len(t))

\* A Submit step.  handle_enter first appends a line break to the
\* transcript, which no other key event does at that place: the first two
\* conjuncts follow from KeyEnter and spare its evaluation on other steps.
SubmitStep ==
    /\ Len(text') > Len(text)
    /\ text'[Len(text) + 1] = "\n"
    /\ KeyEnter

\* t keeps the first n characters of u.
KeepsPrefix(t, u, n) == Len(t) >= n /\ \A i \in 1..n : t[i] = u[i]

\* C1: a Delete-Backward event never removes a character located before
\* the boundary offset: the transcript up to the end of the prompt on the
\* last line is the same after the event as before it.
C1_BackspaceKeepsBoundary ==
    [][ KeyBackspace =>
          KeepsPrefix(text', text, get_prompt_position(text, in_continuation))
      ]_vars

\* C2: after every Submit that handle_enter returned from, the last line of
\* the transcript is the fresh prompt that agrees with the assembler state:
\* the continuation prompt when in_continuation, the primary one otherwise.
C2_PromptAgreesWithState ==
    [][ SubmitStep /\ ~escaped' =>
          last_line(text') = current_prompt(in_continuation') ]_vars

\* C6: no failure raised by a dispatched command leaves execute_command:
\* after every dispatch the key event has returned normally and a fresh
\* prompt is on the last line.
C6_FailureContained ==
    dispatched # << >> =>
        /\ ~escaped
        /\ last_line(text) \in { prompt, continuation_prompt }

\* ---- C3: the detector against the rule read off the line in two passes
Matches(open, close) ==
    << open, close >> \in { << "(", ")" >>, << "[", "]" >>, << "{", "}" >> }

\* The quote character of the literal that is open after the first i
\* characters of s, "None" outside a literal.
RECURSIVE quote_after(_, _)
quote_after(s, i) ==
    IF i = 0 THEN "None"
    ELSE LET q == quote_after(s, i - 1)
         IN IF q = "None" THEN (IF s[i] \in Quotes THEN s[i] ELSE "None")
            ELSE IF s[i] = q THEN "None" ELSE q

\* The brackets among the first i characters of s that lie outside every
\* quoted literal, in order.
RECURSIVE brackets_outside(_, _)
brackets_outside(s, i) ==
    IF i = 0 THEN << >>
    ELSE IF quote_after(s, i - 1) = "None" /\ s[i] \in OpenBrackets \cup CloseBrackets
    THEN Append(brackets_outside(s, i - 1), s[i])
    ELSE brackets_outside(s, i - 1)

\* The open brackets left by a sequence of brackets when a closing bracket
\* removes a matching last open bracket and is dropped otherwise.
RECURSIVE open_left(_)
open_left(bs) ==
    IF bs = << >> THEN << >>
    ELSE LET before == open_left(SubSeq(bs, 1, Len(bs) - 1))
             b == bs[Len(bs)]
         IN IF b \in OpenBrackets THEN Append(before, b)
            ELSE IF before # << >> /\ Matches(before[Len(before)], b)
            THEN SubSeq(before, 1, Len(before) - 1)
            ELSE before

\* Properly nested: empty, or properly nested once an adjacent matching
\* pair is taken out.
RECURSIVE Balanced(_)
Balanced(bs) ==
    \/ bs = << >>
    \/ \E i \in 1..(Len(bs) - 1) :
         /\ Matches(bs[i], bs[i + 1])
         /\ Balanced(SubSeq(bs, 1, i - 1) \o SubSeq(bs, i + 2, Len(bs)))

\* C3: should_continue answers true for a line whose trimmed text ends with
\* ':'; otherwise true exactly when the tolerant scan of the brackets
\* outside quoted literals leaves an open bracket or the line ends inside a
\* literal; false for every line with properly nested brackets, no open
\* literal and no trailing ':'; and it always answers.
C3_Detector ==
    LET bs == brackets_outside(scan_line, Len(scan_line))
        open_literal == quote_after(scan_line, Len(scan_line)) # "None"
        colon == endswith(strip(scan_line), ":")
    IN /\ scan_result \in BOOLEAN
       /\ colon => scan_result
       /\ ~colon => (scan_result <=> (open_left(bs) # << >> \/ open_literal))
       /\ (Balanced(bs) /\ ~open_literal /\ ~colon) => ~scan_result

\* A malformed line: the ']' is ignored, the ')' closes the '('.
C3_Witness == scan_line = << "(", "]", ")" >> /\ scan_result = FALSE

\* ---- C4
\* C4: in Ready a Submit takes the branch its command text selects: the
\* detector says continue: Continuing, pendingCommand is that line, nothing
\* dispatched, a continuation prompt appended; else a non-blank command is
\* dispatched exactly once; else nothing is dispatched, the history is
\* unchanged and only a line break and a primary prompt are appended.
C4_ReadySubmit ==
    [][ SubmitStep /\ ~in_continuation =>
          LET command == get_current_command(text, pos)
          IN IF should_continue(command)
             THEN /\ in_continuation'
                  /\ multiline_command' = command
                  /\ dispatched' = << >>
                  /\ command_history' = command_history
                  /\ text' = text \o << "\n" >> \o continuation_prompt
             ELSE IF strip(command) # << >>
             THEN /\ dispatched' = << command >>
                  /\ ~in_continuation'
             ELSE /\ dispatched' = << >>
                  /\ command_history' = command_history
                  /\ history_index' = history_index
                  /\ ~in_continuation'
                  /\ text' = text \o << "\n" >> \o prompt
      ]_vars

\* A blank line was submitted in Ready after a command had been executed.
C4_Witness ==
    /\ ~in_continuation
    /\ command_history # << >>
    /\ dispatched = << >>
    /\ Len(text) > Len(prompt) + 1
    /\ SubSeq(text, Len(text) - 2 * Len(prompt) - 1, Len(text))
         = << "\n" >> \o prompt \o << "\n" >> \o prompt

\* ---- C5
\* C5: in Continuing a Submit of a non-blank line dispatches nothing,
\* appends the line to pendingCommand and stays in Continuing; a Submit of
\* a blank line dispatches pendingCommand joined with that line exactly
\* once, clears pendingCommand and returns to Ready.
C5_ContinuingSubmit ==
    [][ SubmitStep /\ in_continuation =>
          LET command == get_current_command(text, pos)
              joined == multiline_command \o << "\n" >> \o command
          IN IF strip(command) # << >>
             THEN /\ dispatched' = << >>
                  /\ multiline_command' = joined
                  /\ in_continuation'
             ELSE /\ dispatched' = << joined >>
                  /\ multiline_command' = << >>
                  /\ ~in_continuation'
      ]_vars

\* ---- C7
NoBlankEntry == \A i \in 1..Len(command_history) : strip(command_history[i]) # << >>

NoDuplicateEntry ==
    \A i, j \in 1..Len(command_history) :
        command_history[i] = command_history[j] => i = j

\* C7: command_history holds no blank entry and no entry twice; a dispatch
\* of a command whose trimmed text is present leaves it unchanged, any
\* other dispatch appends the trimmed text at the end, and nothing else
\* changes it.
C7_HistoryEntries ==
    /\ [](NoBlankEntry /\ NoDuplicateEntry)
    /\ [][ IF dispatched' # << >> /\ ~InSeq(strip(dispatched'[1]), command_history)
           THEN command_history' = Append(command_history, strip(dispatched'[1]))
           ELSE command_history' = command_history
         ]_vars

\* An entry that is not the newest one has just been dispatched again.
C7_Witness ==
    /\ dispatched # << >>
    /\ \E i \in 1..(Len(command_history) - 1) :
         command_history[i] = strip(dispatched[1])

\* ---- C8
SingleLineEntries ==
    \A i \in 1..Len(command_history) : ~InSeq("\n", command_history[i])

\* C8: with single-line entries, Recall-Previous from "not browsing" keeps
\* the draft on the current line and shows the newest entry, from an entry
\* it shows the one before, staying at the oldest; Recall-Next shows the
\* next entry, and from the newest one it returns to "not browsing" with
\* the draft as the current line's command text.
C8_RecallSequencing ==
    [][ /\ (KeyUp /\ command_history # << >> /\ SingleLineEntries) =>
              /\ history_index' = IF history_index = -1
                                  THEN Len(command_history) - 1
                                  ELSE Max(0, history_index - 1)
              /\ shown_command(text') = command_history[history_index' + 1]
              /\ history_index = -1 => current_command' = shown_command(text)
              /\ history_index # -1 => current_command' = current_command
        /\ (KeyDown /\ history_index # -1 /\ SingleLineEntries) =>
              IF history_index = Len(command_history) - 1
              THEN /\ history_index' = -1
                   /\ shown_command(text') = current_command
              ELSE /\ history_index' = history_index + 1
                   /\ shown_command(text') = command_history[history_index' + 1]
      ]_vars

\* ---- C9
\* C9: history_index is -1 or an index into command_history, and it is -1
\* after every key event that dispatched a command.
C9_HistoryCursor ==
    /\ history_index = -1 \/ (0 <= history_index /\ history_index < Len(command_history))
    /\ dispatched # << >> => history_index = -1

\* Browsing has gone back from the newest of two entries to the oldest.
C9_Witness == Len(command_history) = 2 /\ history_index = 0

\* ---- C10
\* C10: multiline_command is non-empty only while in_continuation; it is
\* empty after every key event that dispatched a command, and it goes from
\* non-empty to empty in no other key event.
C10_PendingCommand ==
    /\ [](multiline_command # << >> => in_continuation)
    /\ [][ /\ dispatched' # << >> => multiline_command' = << >>
           /\ (multiline_command # << >> /\ multiline_command' = << >>)
                  => dispatched' # << >>
         ]_vars

\* ---- C11
\* C11: whenever the caller passed a mapping to the constructor, the
\* mapping the console evaluates commands against is that same object, so
\* the two hold the same bindings after every command, add_to_namespace
\* call and host binding.
C11_NamespaceShared ==
    namespace_arg # "None" =>
        /\ namespace = namespace_arg
        /\ heap[namespace] = heap[namespace_arg]

\* ---- C12
\* C12: every call of execute_command that runs a command leaves sys.stdout
\* and sys.stderr the objects they were before it, also when an exception
\* leaves the call, and captures in two buffers created for that call.
C12_StreamsRestored ==
    [][ ran' # << >> =>
          /\ sys_stdout' = sys_stdout
          /\ sys_stderr' = sys_stderr
          /\ \E i, j \in (allocated + 1)..allocated' :
                /\ i # j
                /\ ran'[1].stdout_capture = StringIO(i)
                /\ ran'[1].stderr_capture = StringIO(j)
      ]_vars

\* The second dispatched command was left by an exception while the host
\* had its other file on sys.stdout.
C12_Witness ==
    /\ ran # << >>
    /\ escaped
    /\ sys_stdout = file(3)
    /\ ran[1].stdout_capture = StringIO(3)

\* ---- C15
\* C15: right after construction the namespace binds every name the caller
\* passed to the caller's value, every other seed name to its default, and
\* nothing else.
C15_SeedKeepsCallerBindings ==
    (keys = 0 /\ host_calls = 0) =>
        /\ DOMAIN heap[namespace] = DOMAIN initial_namespace \cup DOMAIN defaults
        /\ \A k \in DOMAIN initial_namespace :
              heap[namespace][k] = initial_namespace[k]
        /\ \A k \in DOMAIN defaults \ DOMAIN initial_namespace :
              heap[namespace][k] = defaults[k]

\* The caller passed its own print next to a name outside the seed set.
C15_Witness ==
    /\ keys = 0 /\ host_calls = 0
    /\ DOMAIN initial_namespace = { "app_state", "print" }
    /\ heap[namespace]["print"] = "caller"
    /\ heap[namespace]["len"] = "len"

\* ---- C13
\* C13: an ordinary character or a Tab that arrives while the caret is
\* before the boundary offset is inserted at the end of the transcript,
\* where the caret is left; it is neither dropped nor inserted elsewhere.
C13_InsertionRedirected ==
    [][ pos < get_prompt_position(text, in_continuation) =>
          /\ KeyTab => (text' = text \o tab_text /\ pos' = Len(text'))
          /\ \A c \in Alphabet :
                KeyChar(c) => (text' = text \o << c >> /\ pos' = Len(text'))
      ]_vars

\* ---- C14
\* What execute_command appends for one captured text.
rendered(captured) ==
    IF rstrip_newlines(captured) = << >> THEN << >>
    ELSE rstrip_newlines(captured) \o << "\n" >>

\* C14: a dispatched command that compiles as an expression and evaluates
\* without failure is evaluated once and never executed as a statement;
\* what it wrote to standard output is followed in the transcript by the
\* repr of its result when the result is not None and by nothing when it
\* is None; a fresh prompt ends the transcript.
C14_ExpressionEcho ==
    [][ ( /\ ran' # << >>
          /\ ran'[1].outcome.compile_eval = "ok"
          /\ ran'[1].outcome.eval \in { "None", "Value" } ) =>
          LET o == ran'[1].outcome
              out == written(o.emits, "stdout")
              err == written(o.emits, "stderr")
              echo == IF o.eval = "Value" THEN repr_result \o << "\n" >> ELSE << >>
          IN /\ ran'[1].evals = 1
             /\ ran'[1].execs = 0
             /\ \E p \in { prompt, continuation_prompt } :
                   text' = text \o << "\n" >> \o rendered(out \o echo)
                                \o rendered(err) \o p
      ]_vars

\* An expression that wrote to both streams and returned a value.
C14_Witness ==
    /\ ran # << >>
    /\ ran[1].outcome.eval = "Value"
    /\ ran[1].outcome.emits # << >>
    /\ ran[1].stdout_text = << "p", "\n" >> \o repr_result \o << "\n" >>

\* ---- C16
\* C16: after every key event that dispatched a command, whatever its
\* execution led to, the trimmed command is an entry of command_history
\* and history_index is -1.
C16_HistoryOnEveryDispatch ==
    dispatched # << >> =>
        /\ InSeq(strip(dispatched[1]), command_history)
        /\ history_index = -1

\* A command whose execution ended in a reported failure is in the history.
C16_Witness ==
    /\ dispatched # << >>
    /\ ran # << >>
    /\ ran[1].outcome.eval = "Exception"
    /\ command_history = << strip(dispatched[1]) >>

\* ---- C17
\* C17: a dispatched command is run under 'exec' only if compiling it
\* under 'eval' was rejected, so it is run at most once per dispatch, and
\* a failure of the evaluation is reported on the error stream.
C17_FallbackOnlyOnCompileRejection ==
    ran # << >> =>
        /\ ran[1].execs > 0 => ran[1].outcome.compile_eval = "SyntaxError"
        /\ ran[1].evals + ran[1].execs <= 1
        /\ ran[1].outcome.eval \in { "Exception", "SyntaxError" } =>
              ran[1].stderr_text = handle_exception

\* ---- C18
\* C18: over every key event the boundary offset computed by
\* get_prompt_position does not decrease and the transcript before the
\* boundary stays an unchanged prefix of the transcript.
C18_BoundaryNeverRetreats ==
    [][ /\ get_prompt_position(text', in_continuation')
             >= get_prompt_position(text, in_continuation)
        /\ KeepsPrefix(text', text, get_prompt_position(text, in_continuation))
      ]_vars

\* ---- C19
\* C19: every key event that dispatched a command appends to the
\* transcript, in this order, the line break, the captured standard
\* output, the captured error text, each trimmed of trailing line breaks
\* and closed by one line break or left out when nothing remains, and one
\* prompt.
C19_RenderOrder ==
    [][ ran' # << >> =>
          \E p \in { prompt, continuation_prompt } :
            text' = text \o << "\n" >> \o rendered(ran'[1].stdout_text)
                         \o rendered(ran'[1].stderr_text) \o p
      ]_vars

\* ---- C20
\* C20: a Recall-Previous or Recall-Next event leaves every character of
\* the transcript up to the end of the prompt on the last line as it was;
\* Recall-Next while not browsing and a recall with no entries change
\* neither the transcript nor the history cursor nor the draft.
C20_RecallFrame ==
    [][ (KeyUp \/ KeyDown) =>
          /\ \A i \in 1..get_prompt_position(text, in_continuation) :
                i <= Len(text') /\ text'[i] = text[i]
          /\ (command_history = << >> \/ (KeyDown /\ ~KeyUp /\ history_index = -1)) =>
                UNCHANGED << text, history_index, current_command >>
      ]_vars

\* ---- C21
\* The transcript ends with a prompt followed by exactly s.
ShownAfterPrompt(s) ==
    \E p \in { prompt, continuation_prompt } :
        LET tail == << "\n" >> \o p \o s
        IN /\ Len(text) >= Len(tail)
           /\ SubSeq(text, Len(text) - Len(tail) + 1, Len(text)) = tail

\* In Ready, the entry the history cursor is on stands unedited after the
\* prompt, where a recall put it.
RecalledEntry ==
    /\ ~in_continuation
    /\ history_index # -1
    /\ ShownAfterPrompt(command_history[history_index + 1])

\* C21: when a recalled entry e stands unedited after the prompt, also an
\* entry of several lines, a Submit hands e to the assembler (it
\* dispatches a command whose trimmed text is e, or starts a block with e),
\* and a further recall puts the newly chosen text in the place of the
\* whole of e.
C21_RecallRoundTrip ==
    [][ RecalledEntry =>
          LET e == command_history[history_index + 1]
              before == SubSeq(text, 1, Len(text) - Len(e))
          IN /\ SubmitStep =>
                   \/ dispatched' # << >> /\ strip(dispatched'[1]) = e
                   \/ dispatched' = << >> /\ in_continuation'
                          /\ strip(multiline_command') = e
             /\ (KeyUp \/ KeyDown) =>
                   text' = before \o (IF history_index' = -1
                                       THEN current_command
                                       ELSE command_history[history_index' + 1])
      ]_vars

\* The console is where InitRecall starts: Spec gets there in four key
\* events.
BlockPending ==
    /\ in_continuation
    /\ multiline_command = << "(", "\n", "a" >>
    /\ text = welcome_msg \o prompt \o << "(", "\n" >>
                 \o continuation_prompt \o << "a", "\n" >> \o continuation_prompt
    /\ pos = Len(text)
    /\ command_history = << >>
    /\ history_index = -1
    /\ current_command = << >>
    /\ dispatched = << >>
    /\ ~escaped
    /\ allocated = 0
    /\ ran = << >>

\* ---- C22
\* C22: wherever the movement keys have left the caret, a Submit hands to
\* the assembler the text after the prompt on the last line of the
\* transcript: that text is what is dispatched, what starts a block or
\* what is added to the pending block, and a blank one dispatches nothing
\* in Ready.
C22_SubmitCaretIndependent ==
    [][ SubmitStep =>
          LET command == shown_command(text)
              joined == multiline_command \o << "\n" >> \o command
          IN IF in_continuation
             THEN IF strip(command) = << >>
                  THEN dispatched' = << joined >>
                  ELSE dispatched' = << >> /\ multiline_command' = joined
             ELSE IF should_continue(command)
                  THEN dispatched' = << >> /\ multiline_command' = command
                  ELSE IF strip(command) # << >>
                  THEN dispatched' = << command >>
                  ELSE dispatched' = << >>
      ]_vars

====
